---- MODULE Spec2Model ----
(***************************************************************************)
(* A model of gitingest's ingestion engine: the breadth-first scan of      *)
(* gitingest/ingestion.py (ingest_query, _process_node, _process_file,     *)
(* _process_symlink, limit_exceeded), the pattern filters of               *)
(* gitingest/utils/ingestion_utils.py, the pattern handling of             *)
(* parse_query, the thread-pool walker of gitingest/parallel/walker.py,    *)
(* the entry checks of ingest_query and apply_gitingest_file,              *)
(* redact_secrets of gitingest/security/secret_scan.py, the ChunkCache of  *)
(* gitingest/cache/disk_cache.py and the generator ingest_directory_chunks,*)
(* the token estimate of gitingest/output_formatters.py, the budget fields *)
(* of IngestionQuery, and the path predicates _is_safe_symlink and         *)
(* is_safe_path.                                                           *)
(***************************************************************************)
EXTENDS Integers, Sequences, FiniteSets, TLC

VARIABLES
    fs,        \* the filesystem under local_path: path -> [kind, size, target(, ino)]
    limits,    \* the module constants MAX_FILES, MAX_TOTAL_SIZE_BYTES, MAX_DIRECTORY_DEPTH
    input,     \* parse_query's arguments include_patterns / ignore_patterns
    query,     \* the IngestionQuery: include_patterns, ignore_patterns(, max_*)
    nodes,     \* the FileSystemNode objects reachable from root_node, by path
    stats,     \* FileSystemStats: total_files, total_size
    queue,     \* _process_node's deque of (node, parent)
    cur,       \* current_node and parent of the iteration of the while loop
    pending,   \* entries of current_node.path.iterdir() not yet yielded
    pc,        \* position: "parse", "ready", "pop", "iter", "format", "done"
    aborted,   \* _process_node's return value (True: LimitExceededError caught)
    log,       \* what the scan printed: set of <<message, path>>
    digest,    \* ingest_query's result (summary file count, tree, content)
    first,     \* the digest of an earlier ingest_query call with the same query
    walk,      \* state of one walk_parallel / _walk_serial call
    faults,    \* paths whose stat() or iterdir() raises OSError
    entry,     \* query.type and the state of the root's .gitingest file
    error,     \* the exception ingest_query raised, or "none"
    mtime,     \* st_mtime_ns of the files handed to the cache
    disk,      \* the cache file ~/.gitingestcache/chunks.json
    cache,     \* the ChunkCache objects: their state and their data dict
    run,       \* state of one ingest_directory_chunks generator
    red        \* one call of redact_secrets: text, detector reports, result

vars == <<fs, limits, input, query, nodes, stats, queue, cur, pending, pc,
          aborted, log, digest, first, walk, faults, entry, error, mtime,
          disk, cache, run, red>>

cacheVars == <<mtime, disk, cache, run>>

scanVars == <<nodes, stats, queue, cur, pending, aborted, log, digest>>

(***************************************************************************)
(* Characters, names and paths.  A name is a sequence of one-character     *)
(* strings; a path is the sequence of the names below local_path.          *)
(***************************************************************************)
Ord(ch) ==
    CASE ch = "*" -> 42
      [] ch = "." -> 46
      [] ch = "/" -> 47
      [] ch = "0" -> 48
      [] ch = "1" -> 49
      [] ch = "2" -> 50
      [] ch = "3" -> 51
      [] ch = "?" -> 63
      [] ch = "a" -> 97
      [] ch = "b" -> 98
      [] ch = "c" -> 99
      [] ch = "g" -> 103
      [] ch = "h" -> 104
      [] ch = "k" -> 107
      [] ch = "l" -> 108
      [] ch = "m" -> 109
      [] ch = "n" -> 110
      [] ch = "o" -> 111
      [] ch = "t" -> 116

RECURSIVE StrLess(_, _)
StrLess(s, t) ==
    IF t = <<>> THEN FALSE
    ELSE IF s = <<>> THEN TRUE
    ELSE IF Head(s) = Head(t) THEN StrLess(Tail(s), Tail(t))
    ELSE Ord(Head(s)) < Ord(Head(t))

RootPath == <<>>

Parent(p) == SubSeq(p, 1, Len(p) - 1)

Name(p) == p[Len(p)]

RECURSIVE relative_to(_)
relative_to(p) ==
    IF Len(p) = 1 THEN p[1]
    ELSE relative_to(Parent(p)) \o <<"/">> \o Name(p)

RECURSIVE fnmatch(_, _)
fnmatch(s, pat) ==
    IF pat = <<>> THEN s = <<>>
    ELSE IF Head(pat) = "*"
         THEN fnmatch(s, Tail(pat)) \/ (s # <<>> /\ fnmatch(Tail(s), pat))
    ELSE IF Head(pat) = "?"
         THEN s # <<>> /\ fnmatch(Tail(s), Tail(pat))
    ELSE s # <<>> /\ Head(s) = Head(pat) /\ fnmatch(Tail(s), Tail(pat))

(***************************************************************************)
(* The filesystem.  Universe holds every entry a tree may contain; a tree  *)
(* is a parent-closed subset of it.  A symlink carries where its target    *)
(* resolves: inside the root ("in_file"), outside it ("out"), or not at    *)
(* all because of a symlink loop ("loop").                                 *)
(***************************************************************************)
kt == <<"k", ".", "t">>
mo == <<"m", ".", "o">>
gt == <<"g", ".", "t">>
nt == <<"n", ".", "t">>
ht == <<"h", ".", "t">>
a == <<"a">>
b == <<"b">>
c == <<"c">>
l == <<"l">>

SmallFile == 1
LargeFile == 2

SymTargets == {"in_file", "out", "loop"}

File(sz) == [kind |-> "file", size |-> sz, target |-> "none"]
Dir == [kind |-> "dir", size |-> 0, target |-> "none"]
Symlink(t) == [kind |-> "symlink", size |-> 0, target |-> t]
\* an entry that is neither a file nor a directory (a FIFO, a socket, a device)
Other == [kind |-> "other", size |-> 0, target |-> "none"]

Universe ==
    (<<kt>> :> File(SmallFile)) @@ (<<mo>> :> File(LargeFile)) @@
    (<<a>> :> Dir) @@ (<<a, gt>> :> File(LargeFile)) @@ (<<a, l>> :> Symlink("in_file")) @@
    (<<a, b>> :> Dir) @@ (<<a, b, nt>> :> File(SmallFile)) @@
    (<<c>> :> Dir) @@ (<<c, ht>> :> File(SmallFile))

ParentClosed(S) == \A p \in S : Len(p) > 1 => Parent(p) \in S

Trees ==
    { [p \in S \cup {RootPath} |->
          IF p = RootPath THEN Dir
          ELSE IF Universe[p].kind = "symlink" THEN Symlink(t)
          ELSE Universe[p]] :
      S \in {T \in SUBSET DOMAIN Universe : ParentClosed(T)}, t \in SymTargets }

is_symlink(p) == fs[p].kind = "symlink"
is_file(p) == fs[p].kind = "file" \/ (fs[p].kind = "symlink" /\ fs[p].target \in {"in_file", "out"})
is_dir(p) == fs[p].kind = "dir"

iterdir(d) == {p \in DOMAIN fs : p # RootPath /\ Parent(p) = d}

\* path.stat() raises OSError (permission denied, the file vanished)
stat_raises(p) == p \in faults /\ fs[p].kind = "file"

\* path.iterdir() raises OSError (permission denied, vanished, not a directory)
iterdir_raises(d) == d \in faults \/ fs[d].kind # "dir"

(***************************************************************************)
(* Pattern filters (gitingest/utils/ingestion_utils.py).                   *)
(***************************************************************************)
_should_include(path, include_patterns) ==
    LET rel_str == IF is_dir(path) THEN relative_to(path) \o <<"/">> ELSE relative_to(path)
    IN  \E pattern \in include_patterns : fnmatch(rel_str, pattern)

_should_exclude(path, ignore_patterns) ==
    LET rel_str == relative_to(path)
    IN  \E pattern \in ignore_patterns : pattern # <<>> /\ fnmatch(rel_str, pattern)

(***************************************************************************)
(* parse_query's handling of the patterns (gitingest/query_parsing.py).    *)
(***************************************************************************)
DEFAULT_IGNORE_PATTERNS == {<<"*", ".", "o">>}

\* strip a leading separator; a trailing separator becomes "/*"
_normalize_pattern(p) ==
    LET q == IF p # <<>> /\ Head(p) = "/" THEN Tail(p) ELSE p
    IN  IF q # <<>> /\ q[Len(q)] = "/" THEN q \o <<"*">> ELSE q

_parse_patterns(patterns) == {_normalize_pattern(p) : p \in patterns \ {<<>>}}

ConfiguredIgnore(in) == DEFAULT_IGNORE_PATTERNS \cup _parse_patterns(in.ignore_patterns)

parse_query(in) ==
    IF in.include_patterns # {}
    THEN [include_patterns |-> _parse_patterns(in.include_patterns),
          ignore_patterns  |-> ConfiguredIgnore(in) \ _parse_patterns(in.include_patterns)]
    ELSE [include_patterns |-> {},
          ignore_patterns  |-> ConfiguredIgnore(in)]

IncludeInputs == { {}, {<<"*", ".", "t">>}, {<<"*", ".", "o">>, <<"*", ".", "t">>} }
IgnoreInputs == { {}, {<<"k", "*">>}, {<<"/", "a">>} }

(***************************************************************************)
(* The budgets (gitingest/config.py).  Each is either the shipped default  *)
(* or a small value set through the GITINGEST_* environment variables.     *)
(***************************************************************************)
DEFAULT_MAX_DIRECTORY_DEPTH == 20
DEFAULT_MAX_FILES == 10000
DEFAULT_MAX_TOTAL_SIZE_BYTES == 524288000
FileBudget == 1
SizeBudget == 2
DepthBudget == 1

Limits ==
    [MAX_FILES : {FileBudget, DEFAULT_MAX_FILES},
     MAX_TOTAL_SIZE_BYTES : {SizeBudget, DEFAULT_MAX_TOTAL_SIZE_BYTES},
     MAX_DIRECTORY_DEPTH : {DepthBudget, DEFAULT_MAX_DIRECTORY_DEPTH}]

(***************************************************************************)
(* FileSystemNode and FileSystemStats.                                     *)
(***************************************************************************)
FileSystemNode(type, size, file_count, depth) ==
    [type |-> type, size |-> size, file_count |-> file_count, dir_count |-> 0,
     depth |-> depth, children |-> <<>>]

FileSystemStats == [total_files |-> 0, total_size |-> 0]

NoParent == <<"None">>

\* children are ordered directories first, then by name
ChildLess(ns, p, q) ==
    IF (ns[p].type = "DIRECTORY") # (ns[q].type = "DIRECTORY")
    THEN ns[p].type = "DIRECTORY"
    ELSE StrLess(Name(p), Name(q))

RECURSIVE Insert(_, _, _)
Insert(ns, sorted, p) ==
    IF sorted = <<>> THEN <<p>>
    ELSE IF ChildLess(ns, p, Head(sorted)) THEN <<p>> \o sorted
    ELSE <<Head(sorted)>> \o Insert(ns, Tail(sorted), p)

RECURSIVE SortedChildren(_, _)
SortedChildren(ns, kids) ==
    IF kids = <<>> THEN <<>>
    ELSE Insert(ns, SortedChildren(ns, Tail(kids)), Head(kids))

sort_children(ns, p) == [ns EXCEPT ![p].children = SortedChildren(ns, ns[p].children)]

(***************************************************************************)
(* The scan (gitingest/ingestion.py).  The helpers take and return the     *)
(* record st = [nodes, stats, log] of what they read and change.           *)
(***************************************************************************)
limit_exceeded(st, depth) ==
    \/ depth > limits.MAX_DIRECTORY_DEPTH
    \/ st.total_files >= limits.MAX_FILES
    \/ st.total_size >= limits.MAX_TOTAL_SIZE_BYTES

limit_message(st, depth) ==
    IF depth > limits.MAX_DIRECTORY_DEPTH THEN "Maximum depth limit reached"
    ELSE IF st.total_files >= limits.MAX_FILES THEN "Maximum file limit reached"
    ELSE "Maximum total size limit reached"

_process_symlink(path, parent_node, st) ==
    LET child == FileSystemNode("SYMLINK", 0, 0, st.nodes[parent_node].depth + 1)
    IN  [st EXCEPT
            !.stats.total_files = @ + 1,
            !.nodes = [(@ @@ (path :> child)) EXCEPT
                          ![parent_node].children = Append(@, path),
                          ![parent_node].file_count = @ + 1]]

\* _process_file with the size check made on the running total alone
_process_file_total_only(path, parent_node, st) ==
    LET file_size == fs[path].size
        counted == [st EXCEPT !.stats.total_files = @ + 1,
                              !.stats.total_size = @ + file_size]
        child == FileSystemNode("FILE", file_size, 1, st.nodes[parent_node].depth + 1)
    IN  IF st.stats.total_size > limits.MAX_TOTAL_SIZE_BYTES
        THEN [st EXCEPT !.log = @ \cup {<<"would exceed total size limit", path>>}]
        ELSE IF counted.stats.total_files > limits.MAX_FILES
        THEN [counted EXCEPT !.log = @ \cup {<<"Maximum file limit reached", path>>}]
        ELSE [counted EXCEPT
                 !.nodes = [(@ @@ (path :> child)) EXCEPT
                               ![parent_node].children = Append(@, path),
                               ![parent_node].size = @ + file_size,
                               ![parent_node].file_count = @ + 1]]

_process_file(path, parent_node, st) ==
    LET file_size == fs[path].size
        counted == [st EXCEPT !.stats.total_files = @ + 1,
                              !.stats.total_size = @ + file_size]
        child == FileSystemNode("FILE", file_size, 1, st.nodes[parent_node].depth + 1)
    IN  IF st.stats.total_size + file_size > limits.MAX_TOTAL_SIZE_BYTES
        THEN [st EXCEPT !.log = @ \cup {<<"would exceed total size limit", path>>}]
        ELSE IF counted.stats.total_files > limits.MAX_FILES
        THEN [counted EXCEPT !.log = @ \cup {<<"Maximum file limit reached", path>>}]
        ELSE [counted EXCEPT
                 !.nodes = [(@ @@ (path :> child)) EXCEPT
                               ![parent_node].children = Append(@, path),
                               ![parent_node].size = @ + file_size,
                               ![parent_node].file_count = @ + 1]]

\* the loop body with the include check first: a match skips the exclude check
process_entry_include_first(sub_path, current_node, st) ==
    IF ~(query.include_patterns # {} /\ _should_include(sub_path, query.include_patterns))
       /\ ( \/ (query.ignore_patterns # {} /\ _should_exclude(sub_path, query.ignore_patterns))
            \/ query.include_patterns # {} )
    THEN st
    ELSE IF is_symlink(sub_path) THEN _process_symlink(sub_path, current_node, st)
    ELSE IF is_file(sub_path)
    THEN IF stat_raises(sub_path)
         THEN [st EXCEPT !.log = @ \cup {<<"Could not process", sub_path>>}]
         ELSE _process_file(sub_path, current_node, st)
    ELSE IF is_dir(sub_path)
    THEN LET child == FileSystemNode("DIRECTORY", 0, 0, st.nodes[current_node].depth + 1)
         IN  [st EXCEPT
                 !.nodes = [(@ @@ (sub_path :> child)) EXCEPT
                               ![current_node].children = Append(@, sub_path)]]
    ELSE [st EXCEPT !.log = @ \cup {<<"unknown file type, skipping", sub_path>>}]

\* the body of the loop over current_node.path.iterdir(), for one entry
process_entry(sub_path, current_node, st) ==
    IF query.ignore_patterns # {} /\ _should_exclude(sub_path, query.ignore_patterns)
    THEN st
    ELSE IF query.include_patterns # {} /\ ~_should_include(sub_path, query.include_patterns)
    THEN st
    ELSE IF is_symlink(sub_path) THEN _process_symlink(sub_path, current_node, st)
    ELSE IF is_file(sub_path)
    THEN IF stat_raises(sub_path)
         THEN [st EXCEPT !.log = @ \cup {<<"Could not process", sub_path>>}]
         ELSE _process_file(sub_path, current_node, st)
    ELSE IF is_dir(sub_path)
    THEN LET child == FileSystemNode("DIRECTORY", 0, 0, st.nodes[current_node].depth + 1)
         IN  [st EXCEPT
                 !.nodes = [(@ @@ (sub_path :> child)) EXCEPT
                               ![current_node].children = Append(@, sub_path)]]
    ELSE [st EXCEPT !.log = @ \cup {<<"unknown file type, skipping", sub_path>>}]

\* the queue after an entry when symbolic links are queued like directories
enqueue_links(q, sub_path, current_node, ns) ==
    IF sub_path \in DOMAIN ns /\ ns[sub_path].type \in {"DIRECTORY", "SYMLINK"}
    THEN Append(q, <<sub_path, current_node>>)
    ELSE q

\* line 210: the node made for a directory is queued with its parent
enqueue(q, sub_path, current_node, ns) ==
    IF sub_path \in DOMAIN ns /\ ns[sub_path].type = "DIRECTORY"
    THEN Append(q, <<sub_path, current_node>>)
    ELSE q

\* finish_node with the children left in the order iterdir listed them
finish_node_unsorted(ns, current_node, parent) ==
    IF parent = NoParent THEN ns
    ELSE [ns EXCEPT
             ![parent].size = @ + ns[current_node].size,
             ![parent].file_count = @ + ns[current_node].file_count,
             ![parent].dir_count = @ + 1 + ns[current_node].dir_count]

\* lines 216-222: sort the children, then add the node's totals to its parent
finish_node(ns, current_node, parent) ==
    LET sorted == sort_children(ns, current_node)
    IN  IF parent = NoParent THEN sorted
        ELSE [sorted EXCEPT
                 ![parent].size = @ + sorted[current_node].size,
                 ![parent].file_count = @ + sorted[current_node].file_count,
                 ![parent].dir_count = @ + 1 + sorted[current_node].dir_count]

(***************************************************************************)
(* The digest (gitingest/output_formatters.py).                            *)
(***************************************************************************)
RootName == <<"r">>

RECURSIVE _create_tree_structure(_, _, _)
_create_tree_structure(ns, p, is_last) ==
    LET name == IF p = RootPath THEN RootName ELSE Name(p)
        line == [depth |-> ns[p].depth, is_last |-> is_last,
                 name |-> IF ns[p].type = "DIRECTORY" THEN name \o <<"/">> ELSE name]
        kids == ns[p].children
        RECURSIVE Below(_)
        Below(i) ==
            IF i > Len(kids) THEN <<>>
            ELSE _create_tree_structure(ns, kids[i], i = Len(kids)) \o Below(i + 1)
    IN  <<line>> \o (IF ns[p].type = "DIRECTORY" THEN Below(1) ELSE <<>>)

RECURSIVE _gather_file_contents(_, _)
_gather_file_contents(ns, p) ==
    LET kids == ns[p].children
        RECURSIVE Below(_)
        Below(i) ==
            IF i > Len(kids) THEN <<>>
            ELSE _gather_file_contents(ns, kids[i]) \o Below(i + 1)
    IN  IF ns[p].type = "DIRECTORY" THEN Below(1) ELSE <<p>>

_create_summary_string(ns) == ns[RootPath].file_count

format_node(ns) ==
    [summary |-> _create_summary_string(ns),
     tree    |-> _create_tree_structure(ns, RootPath, TRUE),
     content |-> _gather_file_contents(ns, RootPath)]

NoDigest == [summary |-> 0, tree |-> <<>>, content |-> <<>>]

(***************************************************************************)
(* One call of ingest_query on a directory, as the steps of _process_node. *)
(***************************************************************************)
WalkIdle == [pc |-> "idle"]

Inputs == [include_patterns : IncludeInputs, ignore_patterns : IgnoreInputs]

\* query.type is None and the root holds no .gitingest file
EntryPlain == [type |-> "None", gitingest |-> "absent"]

NoCacheFile == [exists |-> FALSE, readable |-> TRUE, text |-> <<>>]
RunIdle == [pc |-> "idle"]
RedIdle == [pc |-> "idle"]

\* no cache, no ingest_directory_chunks run and no redaction are in play
CacheIdle == mtime = <<>> /\ disk = NoCacheFile /\ cache = <<>> /\ run = RunIdle

\* the patterns of a valid .gitingest file
GitingestIgnore == {<<"c">>}

HasGitingest ==
    RootPath \in DOMAIN fs /\ fs[RootPath].kind = "dir" /\ entry.gitingest # "absent"

\* apply_gitingest_file when it returns: invalid TOML and a file without
\* patterns leave the query alone, patterns are added to query.ignore_patterns
apply_gitingest_file(q) ==
    IF HasGitingest /\ entry.gitingest = "ignore"
    THEN [q EXCEPT !.ignore_patterns = @ \cup GitingestIgnore]
    ELSE q

\* the exception ingest_query raises before the scan starts, or "none"
entry_error ==
    IF HasGitingest /\ entry.gitingest = "unreadable" THEN "OSError"
    ELSE IF HasGitingest /\ entry.gitingest = "unknown_key" THEN "ValidationError"
    ELSE IF RootPath \notin DOMAIN fs THEN "ValueError: cannot be found"
    ELSE IF entry.type = "blob" \/ fs[RootPath].kind = "file"
    THEN IF fs[RootPath].kind # "file" THEN "ValueError: is not a file"
         ELSE IF fs[RootPath].size = 0 THEN "ValueError: has no content"
         ELSE "none"
    ELSE "none"

single_file == entry.type = "blob" \/ fs[RootPath].kind = "file"

Init ==
    /\ fs \in Trees
    /\ limits \in Limits
    /\ input \in Inputs
    /\ query = parse_query(input)
    /\ nodes = <<>>
    /\ stats = FileSystemStats
    /\ queue = <<>>
    /\ cur = [node |-> RootPath, parent |-> NoParent]
    /\ pending = {}
    /\ pc = "ready"
    /\ aborted = FALSE
    /\ log = {}
    /\ digest = NoDigest
    /\ first = [done |-> FALSE, digest |-> NoDigest]
    /\ walk = WalkIdle
    /\ faults = {}
    /\ entry = EntryPlain
    /\ error = "none"
    /\ CacheIdle
    /\ red = RedIdle

\* ingest_query, lines 53-99: the .gitingest file, the checks of the root,
\* the single file, or the root node, fresh statistics and the queue
IngestStart ==
    /\ pc = "ready"
    /\ query' = apply_gitingest_file(query)
    /\ cur' = [node |-> RootPath, parent |-> NoParent]
    /\ pending' = {}
    /\ aborted' = FALSE
    /\ log' = {}
    /\ stats' = FileSystemStats
    /\ IF entry_error # "none"
       THEN /\ error' = entry_error
            /\ pc' = "raised"
            /\ nodes' = <<>>
            /\ queue' = <<>>
            /\ digest' = NoDigest
       ELSE IF single_file
       THEN /\ nodes' = (RootPath :> FileSystemNode("FILE", fs[RootPath].size, 1, 0))
            /\ queue' = <<>>
            /\ digest' = format_node(nodes')
            /\ pc' = "done"
            /\ error' = "none"
       ELSE /\ nodes' = (RootPath :> FileSystemNode("DIRECTORY", 0, 0, 0))
            /\ queue' = << <<RootPath, NoParent>> >>
            /\ digest' = NoDigest
            /\ pc' = "pop"
            /\ error' = "none"
    /\ UNCHANGED <<fs, limits, input, first, walk, faults, entry, cacheVars, red>>

\* lines 182-189: take the next directory; a budget already exceeded ends the
\* scan; an OSError of iterdir() leaves _process_node and ingest_query
PopNode ==
    /\ pc = "pop"
    /\ queue # <<>>
    /\ LET current_node == Head(queue)[1]
           parent == Head(queue)[2]
       IN  /\ queue' = Tail(queue)
           /\ cur' = [node |-> current_node, parent |-> parent]
           /\ IF limit_exceeded(stats, nodes[current_node].depth)
              THEN /\ aborted' = TRUE
                   /\ log' = log \cup {<<limit_message(stats, nodes[current_node].depth), current_node>>}
                   /\ digest' = format_node(nodes)
                   /\ pc' = "done"
                   /\ UNCHANGED <<pending, error>>
              ELSE IF iterdir_raises(current_node)
              THEN /\ error' = "OSError"
                   /\ pc' = "raised"
                   /\ UNCHANGED <<pending, aborted, log, digest>>
              ELSE /\ pending' = iterdir(current_node)
                   /\ pc' = "iter"
                   /\ UNCHANGED <<aborted, log, digest, error>>
    /\ UNCHANGED <<fs, limits, input, query, nodes, stats, first, walk, faults, entry,
                   cacheVars, red>>

\* lines 189-214: one entry of the listing, in whatever order iterdir yields it
ProcessEntry ==
    /\ pc = "iter"
    /\ \E sub_path \in pending :
          LET st == process_entry(sub_path, cur.node,
                                  [nodes |-> nodes, stats |-> stats, log |-> log])
          IN  /\ pending' = pending \ {sub_path}
              /\ nodes' = st.nodes
              /\ stats' = st.stats
              /\ log' = st.log
              /\ queue' = enqueue(queue, sub_path, cur.node, st.nodes)
    /\ UNCHANGED <<fs, limits, input, query, cur, pc, aborted, digest, first, walk,
                   faults, entry, error, cacheVars, red>>

\* lines 216-222: the listing is exhausted
FinishNode ==
    /\ pc = "iter"
    /\ pending = {}
    /\ nodes' = finish_node(nodes, cur.node, cur.parent)
    /\ pc' = "pop"
    /\ UNCHANGED <<fs, limits, input, query, stats, queue, cur, pending, aborted, log,
                   digest, first, walk, faults, entry, error, cacheVars, red>>

\* lines 227 and 101-107: the queue is empty, the digest is formatted
Finish ==
    /\ pc = "pop"
    /\ queue = <<>>
    /\ aborted' = FALSE
    /\ digest' = format_node(nodes)
    /\ pc' = "done"
    /\ UNCHANGED <<fs, limits, input, query, nodes, stats, queue, cur, pending, log,
                   first, walk, faults, entry, error, cacheVars, red>>

Next == IngestStart \/ PopNode \/ ProcessEntry \/ FinishNode \/ Finish

Spec == Init /\ [][Next]_vars

(***************************************************************************)
(* ingest_query on every kind of root (missing, a file, an empty file, a   *)
(* FIFO, a directory), with query.type set or not, with each state of the  *)
(* root's .gitingest file, and with entries whose stat() or iterdir()      *)
(* raises OSError.  The .gitingest file itself is kept out of the listing. *)
(***************************************************************************)
MaxEntryNodes == 3
MaxFaults == 1

DefaultLimits ==
    [MAX_FILES |-> DEFAULT_MAX_FILES,
     MAX_TOTAL_SIZE_BYTES |-> DEFAULT_MAX_TOTAL_SIZE_BYTES,
     MAX_DIRECTORY_DEPTH |-> DEFAULT_MAX_DIRECTORY_DEPTH]

EntryTrees ==
    {t \in Trees : Cardinality(DOMAIN t) <= MaxEntryNodes + 1}
    \cup {(RootPath :> File(SmallFile)), (RootPath :> File(0)), (RootPath :> Other)}
    \cup {<<>>}

QueryTypes == {"None", "blob"}

GitingestStates ==
    {"absent", "invalid_toml", "no_config", "ignore", "unknown_key", "unreadable"}

InitEntry ==
    /\ fs \in EntryTrees
    /\ limits = DefaultLimits
    /\ input = [include_patterns |-> {}, ignore_patterns |-> {}]
    /\ query = parse_query(input)
    /\ nodes = <<>>
    /\ stats = FileSystemStats
    /\ queue = <<>>
    /\ cur = [node |-> RootPath, parent |-> NoParent]
    /\ pending = {}
    /\ pc = "ready"
    /\ aborted = FALSE
    /\ log = {}
    /\ digest = NoDigest
    /\ first = [done |-> FALSE, digest |-> NoDigest]
    /\ walk = WalkIdle
    /\ faults \in {F \in SUBSET {p \in DOMAIN fs : fs[p].kind \in {"file", "dir"}} :
                      Cardinality(F) <= MaxFaults}
    /\ entry \in [type : QueryTypes, gitingest : GitingestStates]
    /\ error = "none"
    /\ CacheIdle
    /\ red = RedIdle

SpecEntry == InitEntry /\ [][Next]_vars

(***************************************************************************)
(* The scan run to its end, over trees whose symbolic link points to a     *)
(* directory above it or into a cycle of links.  The loop of _process_node *)
(* and ingest_query are sequential code: a step that can be taken is       *)
(* taken.                                                                  *)
(***************************************************************************)
LoopTargets == {"ancestor", "loop"}

LoopTrees ==
    { [p \in DOMAIN t |-> IF t[p].kind = "symlink" THEN Symlink(x) ELSE t[p]] :
        t \in Trees, x \in LoopTargets }

InitLoops ==
    /\ fs \in LoopTrees
    /\ limits \in Limits
    /\ input = [include_patterns |-> {}, ignore_patterns |-> {}]
    /\ query = parse_query(input)
    /\ nodes = <<>>
    /\ stats = FileSystemStats
    /\ queue = <<>>
    /\ cur = [node |-> RootPath, parent |-> NoParent]
    /\ pending = {}
    /\ pc = "ready"
    /\ aborted = FALSE
    /\ log = {}
    /\ digest = NoDigest
    /\ first = [done |-> FALSE, digest |-> NoDigest]
    /\ walk = WalkIdle
    /\ faults = {}
    /\ entry = EntryPlain
    /\ error = "none"
    /\ CacheIdle
    /\ red = RedIdle

SpecLoops == InitLoops /\ [][Next]_vars /\ WF_vars(Next)

(***************************************************************************)
(* The budgets of the query (gitingest/schemas/ingestion.py).  The caller  *)
(* may give max_files, max_total_size_bytes and max_directory_depth; a     *)
(* field not given takes the module constant as its default.  The scan is  *)
(* the one of ingest_query above.                                          *)
(***************************************************************************)
BudgetFields == {"max_files", "max_total_size_bytes", "max_directory_depth"}

\* lines 107-109, on top of the patterns parse_query has set
IngestionQuery(parsed, given) ==
    [include_patterns |-> parsed.include_patterns,
     ignore_patterns  |-> parsed.ignore_patterns,
     max_files |->
        IF "max_files" \in given THEN FileBudget ELSE limits.MAX_FILES,
     max_total_size_bytes |->
        IF "max_total_size_bytes" \in given THEN SizeBudget ELSE limits.MAX_TOTAL_SIZE_BYTES,
     max_directory_depth |->
        IF "max_directory_depth" \in given THEN DepthBudget ELSE limits.MAX_DIRECTORY_DEPTH]

InitBudgets ==
    /\ fs \in Trees
    /\ limits \in Limits
    /\ input = [include_patterns |-> {}, ignore_patterns |-> {}]
    /\ \E given \in SUBSET BudgetFields : query = IngestionQuery(parse_query(input), given)
    /\ nodes = <<>>
    /\ stats = FileSystemStats
    /\ queue = <<>>
    /\ cur = [node |-> RootPath, parent |-> NoParent]
    /\ pending = {}
    /\ pc = "ready"
    /\ aborted = FALSE
    /\ log = {}
    /\ digest = NoDigest
    /\ first = [done |-> FALSE, digest |-> NoDigest]
    /\ walk = WalkIdle
    /\ faults = {}
    /\ entry = EntryPlain
    /\ error = "none"
    /\ CacheIdle
    /\ red = RedIdle

SpecBudgets == InitBudgets /\ [][Next]_vars

(***************************************************************************)
(* Entries that name the same file.  Every entry carries ino, the file it  *)
(* names once links are followed: a/l is a symbolic link to a/g.t, and     *)
(* c/h.t is a second hard link to k.t.  The scan is the one of             *)
(* ingest_query above, under the shipped budgets and without patterns.     *)
(***************************************************************************)
st_ino(t, p) ==
    IF t[p].kind = "symlink" /\ t[p].target = "in_file" THEN <<a, gt>>
    ELSE IF p = <<c, ht>> /\ <<kt>> \in DOMAIN t THEN <<kt>>
    ELSE p

LinkTrees ==
    { [p \in DOMAIN t |->
          [kind |-> t[p].kind, size |-> t[p].size, target |-> t[p].target,
           ino |-> st_ino(t, p)]] :
      t \in {u \in Trees :
                \A p \in DOMAIN u :
                    (u[p].kind = "symlink" /\ u[p].target = "in_file")
                        => <<a, gt>> \in DOMAIN u} }

InitLinks ==
    /\ fs \in LinkTrees
    /\ limits = DefaultLimits
    /\ input = [include_patterns |-> {}, ignore_patterns |-> {}]
    /\ query = parse_query(input)
    /\ nodes = <<>>
    /\ stats = FileSystemStats
    /\ queue = <<>>
    /\ cur = [node |-> RootPath, parent |-> NoParent]
    /\ pending = {}
    /\ pc = "ready"
    /\ aborted = FALSE
    /\ log = {}
    /\ digest = NoDigest
    /\ first = [done |-> FALSE, digest |-> NoDigest]
    /\ walk = WalkIdle
    /\ faults = {}
    /\ entry = EntryPlain
    /\ error = "none"
    /\ CacheIdle
    /\ red = RedIdle

SpecLinks == InitLinks /\ [][Next]_vars

(***************************************************************************)
(* walk_parallel (gitingest/parallel/walker.py).  The module defines the   *)
(* function twice; the second definition (lines 32-38) is the one bound to *)
(* the name: it submits fn for every path rglob yields and hands on the    *)
(* results in completion order.  fn(p) returns one item for p or raises.   *)
(***************************************************************************)
MaxWalkEntries == 3
MaxWorkers == 2

rglob == DOMAIN fs \ {RootPath}

fn(p) == <<p>>

WalkTrees == {t \in Trees : Cardinality(DOMAIN t) <= MaxWalkEntries + 1}

InitWalk ==
    /\ fs \in WalkTrees
    /\ limits = [MAX_FILES |-> DEFAULT_MAX_FILES,
                 MAX_TOTAL_SIZE_BYTES |-> DEFAULT_MAX_TOTAL_SIZE_BYTES,
                 MAX_DIRECTORY_DEPTH |-> DEFAULT_MAX_DIRECTORY_DEPTH]
    /\ input = [include_patterns |-> {}, ignore_patterns |-> {}]
    /\ query = parse_query(input)
    /\ nodes = <<>>
    /\ stats = FileSystemStats
    /\ queue = <<>>
    /\ cur = [node |-> RootPath, parent |-> NoParent]
    /\ pending = {}
    /\ pc = "ready"
    /\ aborted = FALSE
    /\ log = {}
    /\ digest = NoDigest
    /\ first = [done |-> FALSE, digest |-> NoDigest]
    /\ faults = {}
    /\ entry = EntryPlain
    /\ error = "none"
    /\ CacheIdle
    /\ red = RedIdle
    /\ \E raises \in SUBSET rglob, w \in 1..MaxWorkers :
          walk = [pc |-> "start", raises |-> raises, max_workers |-> w,
                  futures |-> <<>>, applied |-> <<>>, yielded |-> <<>>]

\* lines 33-35: list the paths, submit fn for each of them to the pool
WalkSubmit ==
    /\ walk.pc = "start"
    /\ walk' = [walk EXCEPT !.pc = "collect",
                            !.futures = [p \in rglob |-> "pending"],
                            !.applied = [p \in rglob |-> 0]]
    /\ UNCHANGED <<fs, limits, input, query, scanVars, pc, first, faults, entry, error,
                   cacheVars, red>>

Running == {p \in DOMAIN walk.futures : walk.futures[p] = "running"}

\* a pool thread takes a queued call and enters fn
WorkerStart ==
    /\ walk.pc \in {"collect", "raised"}
    /\ Cardinality(Running) < walk.max_workers
    /\ \E p \in DOMAIN walk.futures :
          /\ walk.futures[p] = "pending"
          /\ walk' = [walk EXCEPT !.futures[p] = "running", !.applied[p] = @ + 1]
    /\ UNCHANGED <<fs, limits, input, query, scanVars, pc, first, faults, entry, error,
                   cacheVars, red>>

\* fn returns or raises; the future holds the result or the exception
WorkerFinish ==
    /\ walk.pc \in {"collect", "raised"}
    /\ \E p \in Running :
          walk' = [walk EXCEPT !.futures[p] =
                                  IF p \in walk.raises THEN "exception" ELSE "result"]
    /\ UNCHANGED <<fs, limits, input, query, scanVars, pc, first, faults, entry, error,
                   cacheVars, red>>

\* lines 36-38: as_completed hands out a finished future; result() returns the
\* items, which are yielded, or re-raises fn's exception out of the generator
WalkCollect ==
    /\ walk.pc = "collect"
    /\ \E p \in DOMAIN walk.futures :
          \/ /\ walk.futures[p] = "result"
             /\ walk' = [walk EXCEPT !.futures[p] = "consumed",
                                     !.yielded = @ \o fn(p)]
          \/ /\ walk.futures[p] = "exception"
             /\ walk' = [walk EXCEPT !.futures[p] = "consumed", !.pc = "raised"]
    /\ UNCHANGED <<fs, limits, input, query, scanVars, pc, first, faults, entry, error,
                   cacheVars, red>>

\* the with block ends: the pool is shut down once every submitted call has run
WalkExit ==
    /\ walk.pc \in {"collect", "raised"}
    /\ \A p \in DOMAIN walk.futures : walk.futures[p] \notin {"pending", "running"}
    /\ walk.pc = "collect" => \A p \in DOMAIN walk.futures : walk.futures[p] = "consumed"
    /\ walk' = [walk EXCEPT !.pc = IF walk.pc = "collect" THEN "done" ELSE "failed"]
    /\ UNCHANGED <<fs, limits, input, query, scanVars, pc, first, faults, entry, error,
                   cacheVars, red>>

NextWalk == WalkSubmit \/ WorkerStart \/ WorkerFinish \/ WalkCollect \/ WalkExit

SpecWalk == InitWalk /\ [][NextWalk]_vars

\* _walk_serial (gitingest/ingestion.py): the paths fn is applied to
_walk_serial == {p \in rglob : is_file(p)}

(***************************************************************************)
(* Two calls of ingest_query with the same query on the same filesystem.   *)
(***************************************************************************)
Rescan ==
    /\ pc = "done"
    /\ ~first.done
    /\ first' = [done |-> TRUE, digest |-> digest]
    /\ pc' = "ready"
    /\ UNCHANGED <<fs, limits, input, query, nodes, stats, queue, cur, pending, aborted,
                   log, digest, walk, faults, entry, error, cacheVars, red>>

NextTwice == Next \/ Rescan

SpecTwice == Init /\ [][NextTwice]_vars

(***************************************************************************)
(* redact_secrets (gitingest/security/secret_scan.py).  A text is a        *)
(* sequence of lines, each a sequence of characters that ends with "\n"    *)
(* but for the last.  detect_secrets is a library: what scan_line yields   *)
(* for a line is an input, any short sequence of values found in it.       *)
(***************************************************************************)
MASK == "#"
NL == "\n"

isdigit(ch) == ch \in {"5"}
isupper(ch) == ch \in {"K"}

\* str.find, counted from 1; 0 when sub does not occur
find(str, sub) ==
    LET at == {i \in 1..(Len(str) - Len(sub) + 1) : SubSeq(str, i, i + Len(sub) - 1) = sub}
    IN  IF at = {} THEN 0 ELSE CHOOSE i \in at : \A j \in at : i <= j

Max(x, y) == IF x >= y THEN x ELSE y

\* max(4, int(len(secret_value) * 0.8))
mask_len(secret_value) == Max(4, (Len(secret_value) * 8) \div 10)

\* lines 25-27: the mask replaces mask_len characters from idx on
mask_at(line, idx, n) ==
    SubSeq(line, 1, idx - 1) \o [i \in 1..n |-> MASK] \o SubSeq(line, idx + n, Len(line))

\* lines 16-27: the loop over the secrets reported for one line
RECURSIVE redact_line(_, _)
redact_line(redacted_line, secrets) ==
    IF secrets = <<>> THEN redacted_line
    ELSE LET secret_value == Head(secrets)
             idx == find(redacted_line, secret_value)
         IN  IF secret_value = <<>> \/ idx = 0
             THEN redact_line(redacted_line, Tail(secrets))
             ELSE redact_line(mask_at(redacted_line, idx, mask_len(secret_value)),
                              Tail(secrets))

\* text.splitlines(keepends=True) of the text the lines make up
splitlines(text) ==
    [i \in 1..Len(text) |-> IF i < Len(text) THEN text[i].chars \o <<NL>> ELSE text[i].chars]

\* lines 11-12: no digit and no upper-case letter anywhere in the text
prefiltered(text) ==
    \A i \in 1..Len(text) : \A k \in 1..Len(text[i].chars) :
        ~(isdigit(text[i].chars[k]) \/ isupper(text[i].chars[k]))

\* the lines of the result, before "".join(lines)
redact_secrets(text) ==
    IF prefiltered(text) THEN splitlines(text)
    ELSE [i \in 1..Len(text) |-> redact_line(splitlines(text)[i], text[i].reports)]

MaxLines == 2
MaxReports == 2

LongSecret == <<"K", "5", "K", "5", "K">>
ShortSecret == <<"p", "w">>
SecretValues == {LongSecret, ShortSecret}

LineChars ==
    { <<"x", "=">> \o LongSecret,
      LongSecret \o <<" ">> \o LongSecret,
      <<"x", "=">> \o ShortSecret,
      <<"K", "=">> \o ShortSecret,
      <<"o", "k">> }

SeqsUpTo(S, n) == UNION {[1..k -> S] : k \in 0..n}

\* a line with what scan_line yields for it: values that occur in the line,
\* or a secret without a value
LineCases ==
    { [chars |-> ch, reports |-> r] :
        ch \in LineChars,
        r \in SeqsUpTo(SecretValues \cup {<<>>}, MaxReports) }
    \ { lc \in [chars : LineChars, reports : SeqsUpTo(SecretValues \cup {<<>>}, MaxReports)] :
          \E k \in 1..Len(lc.reports) :
              lc.reports[k] # <<>> /\ find(lc.chars, lc.reports[k]) = 0 }

\* the scan, the walker and the cache take no part
ScanIdle ==
    /\ limits = DefaultLimits
    /\ input = [include_patterns |-> {}, ignore_patterns |-> {}]
    /\ query = parse_query(input)
    /\ nodes = <<>>
    /\ stats = FileSystemStats
    /\ queue = <<>>
    /\ cur = [node |-> RootPath, parent |-> NoParent]
    /\ pending = {}
    /\ pc = "ready"
    /\ aborted = FALSE
    /\ log = {}
    /\ digest = NoDigest
    /\ first = [done |-> FALSE, digest |-> NoDigest]
    /\ faults = {}
    /\ entry = EntryPlain
    /\ error = "none"

InitRedact ==
    /\ fs = (RootPath :> Dir)
    /\ ScanIdle
    /\ walk = WalkIdle
    /\ CacheIdle
    /\ \E text \in SeqsUpTo(LineCases, MaxLines) \ {<<>>} :
          red = [pc |-> "call", text |-> text, lines |-> <<>>]

\* one call of redact_secrets
Redact ==
    /\ red.pc = "call"
    /\ red' = [red EXCEPT !.pc = "done", !.lines = redact_secrets(red.text)]
    /\ UNCHANGED <<fs, limits, input, query, scanVars, pc, first, walk, faults, entry,
                   error, cacheVars>>

NextRedact == Redact

SpecRedact == InitRedact /\ [][NextRedact]_vars

(***************************************************************************)
(* redact_secrets called from several threads, statement by statement.     *)
(* _lock is one threading.Lock of the module.  default_settings() is the   *)
(* context manager of detect_secrets: on entry it remembers the settings   *)
(* in force and installs the default plugins, on exit it puts back what it *)
(* remembered; scan_line finds secrets with the plugins in force.          *)
(***************************************************************************)
MaxCalls == 2

Callers == 1..MaxCalls

PlainLine == [chars |-> <<"o", "k">>, reports |-> <<>>]
LongLine == [chars |-> <<"x", "=">> \o LongSecret, reports |-> <<LongSecret>>]
ShortLine == [chars |-> <<"K", "=">> \o ShortSecret, reports |-> <<ShortSecret>>]

CallTexts == {<<PlainLine>>, <<LongLine>>, <<ShortLine, PlainLine>>}

redFrame == <<fs, limits, input, query, scanVars, pc, first, walk, faults, entry, error,
              cacheVars>>

InitCalls ==
    /\ fs = (RootPath :> Dir)
    /\ ScanIdle
    /\ walk = WalkIdle
    /\ CacheIdle
    /\ \E text \in [Callers -> CallTexts], raises \in [Callers -> BOOLEAN] :
          red = [pc |-> "threads", lock |-> 0, settings |-> "none",
                 call |-> [w \in Callers |->
                              [pc |-> "call", text |-> text[w], raises |-> raises[w],
                               lines |-> <<>>, i |-> 1, saved |-> "none",
                               waited |-> FALSE]]]

\* Lock.acquire on a lock that anyone may take at any time
lock_free_always(lock) == TRUE

\* Lock.acquire returns once the lock is not held
lock_free(lock) == lock = 0

\* what scan_line yields for line i with the plugins in force
scan_line(text, i, settings) == IF settings = "default" THEN text[i].reports ELSE <<>>

\* lines 11-13
CallStart(w) ==
    /\ red.call[w].pc = "call"
    /\ red' = [red EXCEPT !.call[w].pc = IF prefiltered(red.call[w].text) THEN "done"
                                         ELSE "acquire",
                          !.call[w].lines = splitlines(red.call[w].text)]
    /\ UNCHANGED redFrame

\* line 14: _lock.__enter__
CallAcquire(w) ==
    /\ red.call[w].pc = "acquire"
    /\ lock_free(red.lock)
    /\ red' = [red EXCEPT !.lock = w,
                          !.call = [v \in Callers |->
                                       IF v = w THEN [red.call[v] EXCEPT !.pc = "enter"]
                                       ELSE IF red.call[v].pc = "acquire"
                                       THEN [red.call[v] EXCEPT !.waited = TRUE]
                                       ELSE red.call[v]]]
    /\ UNCHANGED redFrame

\* line 14: default_settings().__enter__
CallEnter(w) ==
    /\ red.call[w].pc = "enter"
    /\ red' = [red EXCEPT !.settings = "default",
                          !.call[w].saved = red.settings,
                          !.call[w].pc = "scan"]
    /\ UNCHANGED redFrame

\* lines 15-28, one line of the text: scan_line raises or the line is masked
CallScan(w) ==
    /\ red.call[w].pc = "scan"
    /\ LET me == red.call[w]
       IN  IF me.raises
           THEN red' = [red EXCEPT !.call[w].pc = "exit"]
           ELSE red' = [red EXCEPT
                           !.call[w].lines[me.i] =
                               redact_line(me.lines[me.i], scan_line(me.text, me.i, red.settings)),
                           !.call[w].i = @ + 1,
                           !.call[w].pc = IF me.i = Len(me.text) THEN "exit" ELSE "scan"]
    /\ UNCHANGED redFrame

\* leaving the with block: default_settings().__exit__
CallExit(w) ==
    /\ red.call[w].pc = "exit"
    /\ red' = [red EXCEPT !.settings = red.call[w].saved, !.call[w].pc = "release"]
    /\ UNCHANGED redFrame

\* leaving the with block: _lock.__exit__, then line 29 or the exception
CallRelease(w) ==
    /\ red.call[w].pc = "release"
    /\ red' = [red EXCEPT !.lock = 0,
                          !.call[w].pc = IF red.call[w].raises THEN "raised" ELSE "done"]
    /\ UNCHANGED redFrame

CallStep(w) ==
    \/ CallStart(w) \/ CallAcquire(w) \/ CallEnter(w)
    \/ CallScan(w) \/ CallExit(w) \/ CallRelease(w)

NextCalls == \E w \in Callers : CallStep(w)

\* every thread that can take a step is scheduled in the end
SpecCalls == InitCalls /\ [][NextCalls]_vars /\ \A w \in Callers : WF_vars(CallStep(w))

(***************************************************************************)
(* Python values and their JSON encoding.  A value carries its type; the   *)
(* cache file is the sequence of the tokens of one JSON document.          *)
(***************************************************************************)
None == [py |-> "None", v |-> <<>>]
PyStr(str) == [py |-> "str", v |-> str]
PyInt(n) == [py |-> "int", v |-> n]
PyList(items) == [py |-> "list", v |-> items]
PyDict(members) == [py |-> "dict", v |-> members]

\* bool(value): None and the empty list are false
truthy(value) == value.py # "None" /\ ~(value.py = "list" /\ value.v = <<>>)

RECURSIVE to_json(_)
to_json(value) ==
    CASE value.py = "str" -> [js |-> "string", v |-> value.v]
      [] value.py = "int" -> [js |-> "number", v |-> value.v]
      [] value.py = "None" -> [js |-> "null", v |-> <<>>]
      [] value.py = "list" -> [js |-> "array", v |-> [i \in DOMAIN value.v |-> to_json(value.v[i])]]
      [] value.py = "dict" -> [js |-> "object", v |-> [k \in DOMAIN value.v |-> to_json(value.v[k])]]

RECURSIVE from_json(_)
from_json(j) ==
    CASE j.js = "string" -> PyStr(j.v)
      [] j.js = "number" -> PyInt(j.v)
      [] j.js = "null" -> None
      [] j.js = "array" -> PyList([i \in DOMAIN j.v |-> from_json(j.v[i])])
      [] j.js = "object" -> PyDict([k \in DOMAIN j.v |-> from_json(j.v[k])])

LBrace == [tok |-> "{", key |-> <<>>, value |-> to_json(None)]
RBrace == [tok |-> "}", key |-> <<>>, value |-> to_json(None)]
Member(key, value) == [tok |-> "member", key |-> key, value |-> value]

RECURSIVE KeysInOrder(_)
KeysInOrder(K) ==
    IF K = {} THEN <<>>
    ELSE LET k == CHOOSE x \in K : \A y \in K : ~StrLess(y, x)
         IN  <<k>> \o KeysInOrder(K \ {k})

\* json.dumps of the dict self.data
json_dumps(data) ==
    LET keys == KeysInOrder(DOMAIN data)
    IN  <<LBrace>> \o [i \in 1..Len(keys) |-> Member(keys[i], to_json(data[keys[i]]))]
                   \o <<RBrace>>

\* json.loads accepts one complete document and nothing after it
parses(text) ==
    /\ Len(text) >= 2
    /\ text[1] = LBrace
    /\ text[Len(text)] = RBrace
    /\ \A i \in 2..(Len(text) - 1) : text[i].tok = "member"

json_loads(text) ==
    LET keys == {text[i].key : i \in 2..(Len(text) - 1)}
        last(k) == CHOOSE i \in 2..(Len(text) - 1) :
                       text[i].key = k /\ \A j \in 2..(Len(text) - 1) : text[j].key = k => j <= i
    IN  [k \in keys |-> from_json(text[last(k)].value)]

(***************************************************************************)
(* ChunkCache (gitingest/cache/disk_cache.py).  sha1 is taken to be free   *)
(* of collisions: a fingerprint is the byte string that is hashed, the     *)
(* path followed by the decimal digits of st_mtime_ns.                     *)
(***************************************************************************)
MaxMtime == 2
MaxCaches == 1
MaxFlushers == 2

\* the names a program binds cache objects to, and the objects that flush
\* side by side
CacheIds == 1..MaxCaches
FlushIds == 1..MaxFlushers

DigitChars == <<"0", "1", "2", "3", "4", "5", "6", "7", "8", "9">>

RECURSIVE str_int(_)
str_int(n) ==
    IF n < 10 THEN <<DigitChars[n + 1]>>
    ELSE str_int(n \div 10) \o <<DigitChars[(n % 10) + 1]>>

\* what sha1 is fed: update(str(path)) then update(str(st_mtime_ns))
sha_bytes(str_path, mtime_ns) == str_path \o str_int(mtime_ns)

_sha(path) == sha_bytes(relative_to(path), mtime[path])

\* what is remembered of a get or a set: the path, the payload, the mtime then
NoRecord == [some |-> FALSE, path |-> RootPath, value |-> None, m |-> 0]
Record(path, value) == [some |-> TRUE, path |-> path, value |-> value, m |-> mtime[path]]

\* a name is bound to a cache object, which holds state and data; the other
\* fields record the object's flush in progress, its last get and set, what the
\* last flush through this name left in the file (persisted), and what the file
\* held when the object was made (expect)
NoCache ==
    [state |-> "none", data |-> <<>>, flushing |-> FALSE, doc |-> <<>>,
     got |-> NoRecord, lastset |-> NoRecord, persisted |-> NoRecord, expect |-> NoRecord]

\* __init__ that takes the file for absent: always a cold start
ChunkCache_cold(file) == [state |-> "live", data |-> <<>>]

\* __init__: the file is read and parsed when it exists
ChunkCache_init(file) ==
    IF ~file.exists THEN [state |-> "live", data |-> <<>>]
    ELSE IF ~file.readable THEN [state |-> "raised", data |-> <<>>]
    ELSE IF ~parses(file.text) THEN [state |-> "raised", data |-> <<>>]
    ELSE [state |-> "live", data |-> json_loads(file.text)]

\* dict.get(key) and dict[key] = value
dict_get(data, key) == IF key \in DOMAIN data THEN data[key] ELSE None

dict_set(data, key, value) ==
    [k \in DOMAIN data \cup {key} |-> IF k = key THEN value ELSE data[k]]

\* get: self.data.get(_sha(path))
ChunkCache_get(data, path) == dict_get(data, _sha(path))

\* set: self.data[_sha(path)] = chunks
ChunkCache_set(data, path, chunks) == dict_set(data, _sha(path), chunks)

\* write_text: open(..., "w") truncates the file
open_w(file) == [file EXCEPT !.exists = TRUE, !.text = <<>>]

\* write_text: the document is written from offset 0 on, then the file is closed
write(file, doc) ==
    [file EXCEPT !.text = doc \o SubSeq(file.text, Len(doc) + 1, Len(file.text))]

\* the text of a file, with what scan_line yields for its lines
file_text(path) == << [chars |-> <<"o", "k">>, reports |-> <<>>] >>

RECURSIVE join(_)
join(lines) == IF lines = <<>> THEN <<>> ELSE Head(lines) \o join(Tail(lines))

\* chunk_file on a file the registry knows no language for: one chunk
chunk_file(path) ==
    << [path |-> relative_to(path), index |-> 0, kind |-> "file", text |-> file_text(path)] >>

\* ingestion.py lines 370-373: the chunks, their text redacted, as dictionaries
fresh_payload(path) ==
    LET chunks == chunk_file(path)
    IN  PyList([i \in 1..Len(chunks) |->
                   PyDict([path  |-> PyStr(chunks[i].path),
                           index |-> PyInt(chunks[i].index),
                           kind  |-> PyStr(chunks[i].kind),
                           text  |-> PyStr(join(redact_secrets(chunks[i].text)))])])

CacheTree == (RootPath :> Dir) @@ (<<kt>> :> File(SmallFile))

Files == {p \in DOMAIN fs : fs[p].kind = "file"}

\* payloads handed to set: the empty list and what ingestion stores
Payloads == {PyList(<<>>)} \cup {fresh_payload(p) : p \in Files}

CacheFile(text) == [exists |-> TRUE, readable |-> TRUE, text |-> text]

\* the cache file when the program starts: absent, unreadable, cut short,
\* empty, or a complete document
BrokenDisks ==
    {[exists |-> TRUE, readable |-> FALSE, text |-> json_dumps(<<>>)],
     CacheFile(<<LBrace>>),
     CacheFile(<<>>)}

InitCache ==
    /\ fs = CacheTree
    /\ ScanIdle
    /\ walk = WalkIdle
    /\ red = RedIdle
    /\ run = RunIdle
    /\ mtime = [p \in Files |-> 1]
    /\ disk \in {NoCacheFile, CacheFile(json_dumps(<<>>))} \cup BrokenDisks
    /\ cache = [i \in CacheIds |-> NoCache]

cacheFrame == <<fs, limits, input, query, scanVars, pc, first, walk, faults, entry, error,
                run, red>>

\* what the one clean flush since the file was last touched has persisted
Persisted ==
    IF \E i \in DOMAIN cache : cache[i].persisted.some
    THEN (CHOOSE r \in {cache[i].persisted : i \in DOMAIN cache} : r.some)
    ELSE NoRecord

\* cache = ChunkCache(): the name is bound to a new object
CacheNew(i) ==
    /\ ~cache[i].flushing
    /\ LET made == ChunkCache_init(disk)
       IN  cache' = [cache EXCEPT ![i].state = made.state,
                                  ![i].data = made.data,
                                  ![i].got = NoRecord,
                                  ![i].lastset = NoRecord,
                                  ![i].expect = Persisted]
    /\ UNCHANGED <<cacheFrame, mtime, disk>>

\* cache.get(path)
CacheGet(i) ==
    /\ cache[i].state = "live"
    /\ \E path \in Files :
          cache' = [cache EXCEPT ![i].got = Record(path, ChunkCache_get(cache[i].data, path))]
    /\ UNCHANGED <<cacheFrame, mtime, disk>>

\* cache.set(path, chunks)
CacheSet(i) ==
    /\ cache[i].state = "live"
    /\ \E path \in Files, chunks \in Payloads :
          cache' = [cache EXCEPT ![i].data = ChunkCache_set(@, path, chunks),
                                 ![i].lastset = Record(path, chunks),
                                 ![i].got = NoRecord,
                                 ![i].expect = NoRecord]
    /\ UNCHANGED <<cacheFrame, mtime, disk>>

\* cache.flush() with no other user of the file at work
CacheFlush(i) ==
    /\ cache[i].state = "live"
    /\ disk.readable
    /\ disk' = write(open_w(disk), json_dumps(cache[i].data))
    /\ cache' = [k \in DOMAIN cache |->
                    IF k = i
                    THEN [cache[k] EXCEPT
                             !.persisted = IF cache[k].lastset.some THEN cache[k].lastset ELSE @,
                             !.lastset = NoRecord,
                             !.got = NoRecord]
                    ELSE [cache[k] EXCEPT !.persisted = NoRecord]]
    /\ UNCHANGED <<cacheFrame, mtime>>

\* the file is modified: its st_mtime_ns grows
Touch ==
    /\ \E path \in Files :
          /\ mtime[path] < MaxMtime
          /\ mtime' = [mtime EXCEPT ![path] = @ + 1]
    /\ UNCHANGED <<cacheFrame, disk, cache>>

NextCache ==
    \/ \E i \in CacheIds : CacheNew(i) \/ CacheGet(i) \/ CacheSet(i) \/ CacheFlush(i)
    \/ Touch

SpecCache == InitCache /\ [][NextCache]_vars

(***************************************************************************)
(* flush() step by step, with several cache objects (of one process or of  *)
(* several) that flush to the one cache file while others construct.       *)
(***************************************************************************)
DataSets == UNION {[K -> Payloads] : K \in SUBSET {_sha(p) : p \in Files}}

InitFlush ==
    /\ fs = CacheTree
    /\ ScanIdle
    /\ walk = WalkIdle
    /\ red = RedIdle
    /\ run = RunIdle
    /\ mtime = [p \in Files |-> 1]
    /\ \E d \in DataSets : disk = CacheFile(json_dumps(d))
    /\ \E live \in SUBSET FlushIds, d \in [FlushIds -> DataSets] :
          cache = [i \in FlushIds |->
                      IF i \in live THEN [NoCache EXCEPT !.state = "live", !.data = d[i]]
                      ELSE NoCache]

\* flush, first half: json.dumps(self.data), then write_text opens the file
FlushOpen(i) ==
    /\ cache[i].state = "live"
    /\ ~cache[i].flushing
    /\ disk' = open_w(disk)
    /\ cache' = [cache EXCEPT ![i].flushing = TRUE, ![i].doc = json_dumps(cache[i].data)]
    /\ UNCHANGED <<cacheFrame, mtime>>

\* flush, second half: the document is written and the file closed
FlushWrite(i) ==
    /\ cache[i].flushing
    /\ disk' = write(disk, cache[i].doc)
    /\ cache' = [cache EXCEPT ![i].flushing = FALSE]
    /\ UNCHANGED <<cacheFrame, mtime>>

NextFlush == \E i \in FlushIds : CacheNew(i) \/ FlushOpen(i) \/ FlushWrite(i)

SpecFlush == InitFlush /\ [][NextFlush]_vars

(***************************************************************************)
(* ingest_directory_chunks (gitingest/ingestion.py lines 346-385): a       *)
(* generator.  Its body starts at the first next(): the cache is made when *)
(* incremental is set, the walker applies _ingest_single_path to the paths *)
(* and the items are yielded; the flush is the statement after the yield   *)
(* from.  A call of _ingest_single_path is one step: the dictionary        *)
(* operations of two pool threads on different keys commute.               *)
(***************************************************************************)
MaxRunEntries == 2

RunTrees ==
    {t \in Trees : /\ Cardinality(DOMAIN t) <= MaxRunEntries + 1
                   /\ \A q \in DOMAIN t : t[q].kind \in {"file", "dir"}}

\* the documents a cache file can hold for the files of the tree: for each
\* file no entry, the empty list, or the payload ingestion stores
RunDocs ==
    UNION {[K -> {"empty", "fresh"}] : K \in SUBSET Files}

RunData(d) ==
    LET path(k) == CHOOSE q \in DOMAIN d : _sha(q) = k
    IN  [k \in {_sha(q) : q \in DOMAIN d} |->
            IF d[path(k)] = "empty" THEN PyList(<<>>) ELSE fresh_payload(path(k))]

runFrame == <<fs, limits, input, query, scanVars, pc, first, walk, faults, entry, error, red>>

InitChunks ==
    /\ fs \in RunTrees
    /\ ScanIdle
    /\ walk = WalkIdle
    /\ red = RedIdle
    /\ mtime = [q \in rglob |-> 1]
    /\ disk \in {NoCacheFile} \cup BrokenDisks \cup {CacheFile(json_dumps(RunData(d))) : d \in RunDocs}
    /\ cache = <<NoCache>>
    /\ \E parallel \in BOOLEAN, incremental \in BOOLEAN, raises \in SUBSET Files :
          run = [pc |-> "created", parallel |-> parallel, incremental |-> incremental,
                 raises |-> raises, todo |-> {}, trace |-> <<>>, yielded |-> <<>>,
                 start |-> NoCacheFile, loaded |-> <<>>, loads |-> 0, flushes |-> 0,
                 cause |-> "none"]

\* _walk_serial applies fn to the regular files, walk_parallel to every path
walker_paths == IF run.parallel THEN rglob ELSE {q \in rglob : is_file(q)}

\* the first next(): line 363, then the walker lists the paths
ChunksBegin ==
    /\ run.pc = "created"
    /\ IF run.incremental
       THEN LET made == ChunkCache_init(disk)
            IN  /\ cache' = [cache EXCEPT ![1].state = made.state, ![1].data = made.data]
                /\ run' = [run EXCEPT
                              !.pc = IF made.state = "raised" THEN "raised" ELSE "walking",
                              !.cause = IF made.state = "raised" THEN "ChunkCache" ELSE "none",
                              !.start = disk,
                              !.loaded = made.data,
                              !.loads = @ + 1,
                              !.todo = walker_paths]
       ELSE /\ run' = [run EXCEPT !.pc = "walking", !.todo = walker_paths]
            /\ UNCHANGED cache
    /\ UNCHANGED <<runFrame, mtime, disk>>

\* _ingest_single_path(path), lines 365-376, and the yield of what it returns
ChunksStep ==
    /\ run.pc = "walking"
    /\ \E path \in run.todo :
          LET had    == run.incremental /\ _sha(path) \in DOMAIN cache[1].data
              cached == IF run.incremental THEN ChunkCache_get(cache[1].data, path) ELSE None
              hit    == run.incremental /\ truthy(cached)
              data   == fresh_payload(path)
              after  == IF run.incremental THEN ChunkCache_set(cache[1].data, path, data)
                        ELSE cache[1].data
              call(computed, returned, kept) ==
                  [q \in DOMAIN run.trace \cup {path} |->
                      IF q = path
                      THEN [had |-> had, stored |-> cached, computed |-> computed,
                            returned |-> returned, kept |-> kept]
                      ELSE run.trace[q]]
          IN  IF hit
              THEN /\ run' = [run EXCEPT !.todo = @ \ {path},
                                         !.trace = call(FALSE, cached, TRUE),
                                         !.yielded = Append(@, path)]
                   /\ UNCHANGED cache
              ELSE IF path \in run.raises \/ ~is_file(path)
              THEN \* chunk_file: read_text raises OSError
                   /\ run' = [run EXCEPT !.pc = "raised", !.cause = "chunk_file",
                                         !.todo = @ \ {path}]
                   /\ UNCHANGED cache
              ELSE /\ run' = [run EXCEPT
                                 !.todo = @ \ {path},
                                 !.trace = call(TRUE, data,
                                                run.incremental /\ _sha(path) \in DOMAIN after
                                                    /\ after[_sha(path)] = data),
                                 !.yielded = Append(@, path)]
                   /\ cache' = [cache EXCEPT ![1].data = after]
    /\ UNCHANGED <<runFrame, mtime, disk>>

\* the consumer stops iterating: the generator is closed at the yield it waits in
ChunksClose ==
    /\ run.pc = "walking"
    /\ run.yielded # <<>>
    /\ run' = [run EXCEPT !.pc = "closed"]
    /\ UNCHANGED <<runFrame, mtime, disk, cache>>

\* the walker is exhausted: lines 384-385
ChunksEnd ==
    /\ run.pc = "walking"
    /\ run.todo = {}
    /\ IF run.incremental
       THEN /\ disk' = write(open_w(disk), json_dumps(cache[1].data))
            /\ run' = [run EXCEPT !.pc = "done", !.flushes = @ + 1]
       ELSE /\ run' = [run EXCEPT !.pc = "done"]
            /\ UNCHANGED disk
    /\ UNCHANGED <<runFrame, mtime, cache>>

NextChunks == ChunksBegin \/ ChunksStep \/ ChunksClose \/ ChunksEnd

SpecChunks == InitChunks /\ [][NextChunks]_vars

(***************************************************************************)
(* The fingerprints of ChunkCache.  A Path is spelled relative to the      *)
(* working directory or from the filesystem root, which is the working     *)
(* directory here; _sha hashes str(path) as it is spelled (pathlib does    *)
(* not resolve) followed, with nothing in between, by the digits of        *)
(* st_mtime_ns.                                                            *)
(***************************************************************************)
a1 == <<"a", "1">>

Spellings == {"relative", "absolute"}

\* st_mtime_ns of a file over time
KeyMtimes == {1, 11}

str_path(path, spelling) ==
    IF spelling = "absolute" THEN <<"/">> \o relative_to(path) ELSE relative_to(path)

KeyTree == (RootPath :> Dir) @@ (<<a>> :> File(SmallFile)) @@ (<<a1>> :> File(SmallFile))

NoLookup == [some |-> FALSE, path |-> RootPath, spelling |-> "relative", value |-> None,
             expect |-> None]

InitKey ==
    /\ fs = KeyTree
    /\ ScanIdle
    /\ walk = WalkIdle
    /\ red = RedIdle
    /\ mtime = [q \in Files |-> 1]
    /\ disk = NoCacheFile
    /\ cache = <<[NoCache EXCEPT !.state = "live"]>>
    /\ run = [pc |-> "key", ref |-> <<>>, got |-> NoLookup]

\* cache.set(path, chunks); ref remembers the payload by path and mtime
KeySet ==
    /\ \E path \in Files, spelling \in Spellings :
       \E chunks \in {PyList(<<>>), fresh_payload(path)} :
          /\ cache' = [cache EXCEPT ![1].data =
                          dict_set(@, sha_bytes(str_path(path, spelling), mtime[path]), chunks)]
          /\ run' = [run EXCEPT !.ref = dict_set(@, <<path, mtime[path]>>, chunks),
                                !.got = NoLookup]
    /\ UNCHANGED <<runFrame, mtime, disk>>

\* cache.get(path); expect is what a map keyed by path and mtime holds
KeyGet ==
    /\ \E path \in Files, spelling \in Spellings :
          run' = [run EXCEPT !.got =
                     [some   |-> TRUE,
                      path   |-> path,
                      spelling |-> spelling,
                      value  |-> dict_get(cache[1].data,
                                          sha_bytes(str_path(path, spelling), mtime[path])),
                      expect |-> dict_get(run.ref, <<path, mtime[path]>>)]]
    /\ UNCHANGED <<runFrame, mtime, disk, cache>>

\* the file is modified
KeyTouch ==
    /\ \E path \in Files, m \in KeyMtimes :
          /\ m > mtime[path]
          /\ mtime' = [mtime EXCEPT ![path] = m]
    /\ run' = [run EXCEPT !.got = NoLookup]
    /\ UNCHANGED <<runFrame, disk, cache>>

NextKey == KeySet \/ KeyGet \/ KeyTouch

SpecKey == InitKey /\ [][NextKey]_vars

(***************************************************************************)
(* The token estimate of the summary (gitingest/output_formatters.py,      *)
(* _generate_token_string and format_directory).  tiktoken is a library:   *)
(* the number of tokens it counts, or the exception it raises, is an       *)
(* input.  A rendered number is its unit, its value in tenths of the unit  *)
(* and the number of decimals shown; the inputs hold no rounding tie.      *)
(***************************************************************************)
ONE_K == 1000
ONE_M == 1000000

TokenSpan == 2
MaxSummaryFiles == 2

TokenCounts ==
    UNION {(t - TokenSpan)..(t + TokenSpan) : t \in {TokenSpan, ONE_K, ONE_M}}
        \cup {1499, 2500000}

EncodeOutcomes == {"ok", "ValueError", "UnicodeEncodeError"}

NoTokens == [some |-> FALSE, unit |-> "", tenths |-> 0, decimals |-> 0]

\* "{x / by:.1f}": x / by rounded to one decimal
one_decimal(x, by) == (x * 10 + by \div 2) \div by

\* lines 107-120; None is NoTokens
_generate_token_string(total_tokens, outcome) ==
    IF outcome # "ok" THEN NoTokens
    ELSE IF total_tokens > ONE_M
    THEN [some |-> TRUE, unit |-> "M", tenths |-> one_decimal(total_tokens, ONE_M), decimals |-> 1]
    ELSE IF total_tokens > ONE_K
    THEN [some |-> TRUE, unit |-> "k", tenths |-> one_decimal(total_tokens, ONE_K), decimals |-> 1]
    ELSE [some |-> TRUE, unit |-> "", tenths |-> total_tokens * 10, decimals |-> 0]

\* lines 171-179: the lines of the summary, by their labels
summary_lines(file_count, total_tokens, outcome) ==
    LET formatted_tokens == _generate_token_string(total_tokens, outcome)
        files == [label |-> "Files analyzed", count |-> file_count, tokens |-> NoTokens]
    IN  IF formatted_tokens.some
        THEN <<files, [label |-> "Estimated tokens", count |-> 0, tokens |-> formatted_tokens]>>
        ELSE <<files>>

InitTokens ==
    /\ fs = (RootPath :> Dir)
    /\ ScanIdle
    /\ walk = WalkIdle
    /\ red = RedIdle
    /\ mtime = <<>>
    /\ disk = NoCacheFile
    /\ cache = <<>>
    /\ \E n \in TokenCounts, outcome \in EncodeOutcomes, file_count \in 0..MaxSummaryFiles :
          run = [pc |-> "format", total_tokens |-> n, outcome |-> outcome,
                 file_count |-> file_count, summary |-> <<>>]

\* format_directory builds the summary
FormatSummary ==
    /\ run.pc = "format"
    /\ run' = [run EXCEPT !.pc = "formatted",
                          !.summary = summary_lines(run.file_count, run.total_tokens, run.outcome)]
    /\ UNCHANGED <<runFrame, mtime, disk, cache>>

NextTokens == FormatSummary

SpecTokens == InitTokens /\ [][NextTokens]_vars

(***************************************************************************)
(* The path-safety predicates: _is_safe_symlink of                         *)
(* gitingest/utils/path_utils.py and is_safe_path of                       *)
(* gitingest/security/path_safety.py.  Here a path is the sequence of its  *)
(* components, "/" first when it is absolute.  Path.resolve makes the path *)
(* absolute, follows links and drops "..".  On a cycle of links resolve    *)
(* raises RuntimeError up to Python 3.12 and, not strict, returns the path *)
(* with the link left in it from Python 3.13 on.                           *)
(***************************************************************************)
MaxLinkHops == 2

Cwd == <<"/", "w">>
BaseAbs == <<"/", "w", "r">>

\* the symbolic links of the filesystem and where they point
Links ==
    (BaseAbs \o <<"in">> :> BaseAbs \o <<"a">>) @@
    (BaseAbs \o <<"up">> :> BaseAbs) @@
    (BaseAbs \o <<"out">> :> <<"/", "w", "x">>) @@
    (BaseAbs \o <<"loop">> :> BaseAbs \o <<"loop">>)

Builds == {"py312", "py313"}

is_absolute(p) == p # <<>> /\ Head(p) = "/"

RECURSIVE realpath(_, _, _)
realpath(seen, rest, hops) ==
    IF rest = <<>> THEN [loop |-> FALSE, path |-> seen]
    ELSE LET name == Head(rest)
             next == seen \o <<name>>
         IN  IF name = ".."
             THEN realpath(IF Len(seen) > 1 THEN SubSeq(seen, 1, Len(seen) - 1) ELSE seen,
                           Tail(rest), hops)
             ELSE IF next \in DOMAIN Links
             THEN IF hops = 0 THEN [loop |-> TRUE, path |-> next \o Tail(rest)]
                  ELSE realpath(<<"/">>, Tail(Links[next]) \o Tail(rest), hops - 1)
             ELSE realpath(next, Tail(rest), hops)

\* Path.resolve(strict=False): the path, or the exception it raises
resolve(p, build) ==
    LET abs  == IF is_absolute(p) THEN p ELSE Cwd \o p
        real == realpath(<<"/">>, Tail(abs), MaxLinkHops)
    IN  IF real.loop /\ build = "py312" THEN [raises |-> "RuntimeError", path |-> <<>>]
        ELSE [raises |-> "none", path |-> real.path]

\* os.path.normpath on an absolute path: ".." takes back a component
RECURSIVE normpath(_, _)
normpath(seen, rest) ==
    IF rest = <<>> THEN seen
    ELSE IF Head(rest) = ".."
    THEN normpath(IF Len(seen) > 1 THEN SubSeq(seen, 1, Len(seen) - 1) ELSE seen, Tail(rest))
    ELSE normpath(seen \o <<Head(rest)>>, Tail(rest))

_normalize_path(p) == IF is_absolute(p) THEN normpath(<<"/">>, Tail(p)) ELSE normpath(<<>>, p)

\* PurePath.parents: the path without its last components, one after another
parents(p) ==
    IF is_absolute(p) THEN {SubSeq(p, 1, n) : n \in 1..(Len(p) - 1)}
    ELSE {SubSeq(p, 1, n) : n \in 0..(Len(p) - 1)}

\* path_utils.py lines 46-57 (not on Windows): "True", "False" or the
\* exception that leaves the function
_is_safe_symlink(symlink_path, base_path, build) ==
    LET target == resolve(symlink_path, build)
        base   == resolve(base_path, build)
    IN  IF target.raises # "none" THEN target.raises
        ELSE IF base.raises # "none" THEN base.raises
        ELSE LET target_path   == _normalize_path(target.path)
                 base_resolved == _normalize_path(base.path)
             IN  IF base_resolved \in parents(target_path) \/ target_path = base_resolved
                 THEN "True" ELSE "False"

\* path_safety.py lines 6-10
is_safe_path(base, target, build) ==
    LET resolved == resolve(target, build)
    IN  IF resolved.raises = "RuntimeError" THEN "False"
        ELSE IF base \in parents(resolved.path) THEN "True" ELSE "False"

\* the base directory as the caller spells it
Bases == {BaseAbs, <<"r">>}

\* targets, spelled from the base
TargetTails ==
    { <<>>, <<"k">>, <<"a", "g">>, <<"..", "evil">>, <<"a", "..", "k">>, <<"..">>,
      <<"in">>, <<"in", "g">>, <<"up">>, <<"out">>, <<"out", "f">>, <<"loop">>,
      <<"in", "..", "..", "x">> }

InitSafe ==
    /\ fs = (RootPath :> Dir)
    /\ ScanIdle
    /\ walk = WalkIdle
    /\ red = RedIdle
    /\ mtime = <<>>
    /\ disk = NoCacheFile
    /\ cache = <<>>
    /\ \E base \in Bases, spelled \in Bases, tail \in TargetTails, build \in Builds :
          run = [pc |-> "paths", base |-> base, target |-> spelled \o tail, build |-> build,
                 symlink |-> "unset", path |-> "unset"]

\* _is_safe_symlink(target, base)
CheckSymlink ==
    /\ run.pc = "paths"
    /\ run.symlink = "unset"
    /\ run' = [run EXCEPT !.symlink = _is_safe_symlink(run.target, run.base, run.build)]
    /\ UNCHANGED <<runFrame, mtime, disk, cache>>

\* is_safe_path(base, target)
CheckPath ==
    /\ run.pc = "paths"
    /\ run.path = "unset"
    /\ run' = [run EXCEPT !.path = is_safe_path(run.base, run.target, run.build)]
    /\ UNCHANGED <<runFrame, mtime, disk, cache>>

NextSafe == CheckSymlink \/ CheckPath

SpecSafe == InitSafe /\ [][NextSafe]_vars

(***************************************************************************)
(* Vocabulary of the properties.                                           *)
(***************************************************************************)
IsPrefix(p, q) == Len(p) < Len(q) /\ SubSeq(q, 1, Len(p)) = p

Below(ns, p) == {q \in DOMAIN ns : IsPrefix(p, q)}

RECURSIVE SumSize(_, _)
SumSize(ns, S) ==
    IF S = {} THEN 0
    ELSE LET q == CHOOSE x \in S : TRUE IN ns[q].size + SumSize(ns, S \ {q})

Leaves(ns, p) == {q \in Below(ns, p) : ns[q].type # "DIRECTORY"}

AggregatesConsistent(ns) ==
    \A p \in DOMAIN ns :
        ns[p].type = "DIRECTORY" =>
            /\ ns[p].size = SumSize(ns, Leaves(ns, p))
            /\ ns[p].file_count = Cardinality(Leaves(ns, p))
            /\ ns[p].dir_count = Cardinality(Below(ns, p) \ Leaves(ns, p))

Scanning == pc \in {"pop", "iter", "done"}

QueuedDirs == {queue[i][1] : i \in 1..Len(queue)}

\* directories recorded in the tree but given up when a budget ended the scan
Abandoned == IF pc = "done" /\ aborted THEN QueuedDirs \cup {cur.node} ELSE {}

Ancestors(p) == {SubSeq(p, 1, i) : i \in 0..(Len(p) - 1)}

Excluded(p) == query.ignore_patterns # {} /\ _should_exclude(p, query.ignore_patterns)

Included(p) == query.include_patterns = {} \/ _should_include(p, query.include_patterns)

BudgetRefused(p) == \E e \in log : e[2] = p

\* C1: after a complete scan every directory's size, file_count and dir_count
\* are the totals over all its descendants, and the summary's file count is
\* the number of file leaves of the whole tree
C1_AggregatesAfterScan ==
    (pc = "done" /\ ~aborted) =>
        /\ AggregatesConsistent(nodes)
        /\ digest.summary = Cardinality(Leaves(nodes, RootPath))

FlatRoot == \A p \in DOMAIN fs \ {RootPath} : Len(p) = 1 /\ fs[p].kind = "file"
Eligible(p) == ~Excluded(p) /\ Included(p)

\* C2: no more than MAX_FILES file leaves (files and symlinks) are ever
\* recorded, and a flat directory with more eligible files than the budget
\* is summarised as exactly MAX_FILES files
C2_FileBudget ==
    Scanning =>
        /\ Cardinality(Leaves(nodes, RootPath)) <= limits.MAX_FILES
        /\ (pc = "done" /\ FlatRoot
              /\ Cardinality({p \in iterdir(RootPath) : Eligible(p)}) > limits.MAX_FILES)
           => digest.summary = limits.MAX_FILES

\* directories whose listing has begun
Listed ==
    {d \in DOMAIN nodes : nodes[d].type = "DIRECTORY" /\ d \notin QueuedDirs /\ d \notin Abandoned}

\* entries the loop over iterdir has already handled
Processed(p) ==
    /\ p # RootPath
    /\ Parent(p) \in Listed
    /\ ~(pc = "iter" /\ cur.node = Parent(p) /\ p \in pending)

SizeRefused(p) == <<"would exceed total size limit", p>> \in log

RECURSIVE SumFileSize(_)
SumFileSize(S) ==
    IF S = {} THEN 0
    ELSE LET q == CHOOSE x \in S : TRUE IN fs[q].size + SumFileSize(S \ {q})

\* the regular files that passed the total-size check
Accumulated ==
    {p \in DOMAIN fs : fs[p].kind = "file" /\ Processed(p) /\ Eligible(p)
                       /\ ~stat_raises(p) /\ ~SizeRefused(p)}

C3_SizeInvariant ==
    Scanning =>
        /\ stats.total_size <= limits.MAX_TOTAL_SIZE_BYTES
        /\ stats.total_size = SumFileSize(Accumulated)
        /\ \A p \in DOMAIN fs : SizeRefused(p) => p \notin DOMAIN nodes

C3_SizeStep ==
    \A p \in DOMAIN fs :
        /\ (fs[p].kind = "file" /\ p \notin DOMAIN nodes /\ p \in DOMAIN nodes')
              => stats.total_size + fs[p].size <= limits.MAX_TOTAL_SIZE_BYTES
        /\ (pc = "iter" /\ p \in pending /\ p \notin pending' /\ fs[p].kind = "file"
               /\ Eligible(p) /\ stats.total_size + fs[p].size > limits.MAX_TOTAL_SIZE_BYTES)
              => (nodes' = nodes /\ stats' = stats /\ queue' = queue /\ SizeRefused(p)')

\* C3: a regular file is recorded only if the running total plus its size
\* stays within MAX_TOTAL_SIZE_BYTES; a file refused by this check adds no
\* node and changes no counter; total_size never exceeds the budget and is
\* exactly the sum of the sizes of the files that passed the check
C3_SizeBudget == [](C3_SizeInvariant) /\ [][C3_SizeStep]_vars

C3_Witness ==
    /\ pc = "done"
    /\ \E p \in DOMAIN fs : SizeRefused(p) /\ stats.total_size > 0

\* C4: when a budget is found exceeded at a queued directory the scan still
\* returns a digest of every node recorded so far, no queued directory that is
\* itself within budget is left unscanned, and the aggregates of the tree are
\* consistent
C4_PartialResult ==
    (pc = "done" /\ aborted) =>
        /\ digest = format_node(nodes)
        /\ \A d \in QueuedDirs : limit_exceeded(stats, nodes[d].depth)
        /\ AggregatesConsistent(nodes)

\* C5: a regular file is in the result iff its own path matches no ignore
\* pattern, matches an include pattern when there are any, and no ancestor
\* directory was pruned by an ignore pattern or a budget
C5_FilterCorrect ==
    pc = "done" =>
        \A p \in DOMAIN fs :
            fs[p].kind = "file" =>
                (p \in DOMAIN nodes <=>
                    /\ Eligible(p)
                    /\ ~BudgetRefused(p)
                    /\ \A d \in Ancestors(p) :
                          /\ d # RootPath => ~Excluded(d)
                          /\ d \notin Abandoned)

\* C6 (as claimed): an entry matching an ignore pattern of the configuration
\* (the defaults and the caller's ignore patterns) is never recorded
C6_ConfiguredIgnoreWins ==
    Scanning =>
        \A p \in DOMAIN nodes \ {RootPath} :
            ~_should_exclude(p, ConfiguredIgnore(input))

\* C6 (amended): an entry matching a pattern of the query's ignore set, which
\* is the configured set minus the patterns also given as include patterns,
\* is never recorded, whatever the include patterns are
C6_EffectiveIgnoreWins ==
    Scanning =>
        \A p \in DOMAIN nodes \ {RootPath} :
            ~_should_exclude(p, query.ignore_patterns)

C6_Witness ==
    /\ pc = "done"
    /\ query.include_patterns # {}
    /\ \E p \in iterdir(RootPath) :
          /\ _should_exclude(p, query.ignore_patterns)
          /\ _should_include(p, query.include_patterns)
          /\ p \notin DOMAIN nodes

\* C7: a symlink whose target resolves outside the root, or does not resolve
\* because of a loop, is never a node of the tree
C7_SymlinkSafety ==
    Scanning =>
        \A p \in DOMAIN nodes :
            fs[p].kind = "symlink" => fs[p].target = "in_file"

\* C8: two scans of the same filesystem with the same configuration give the
\* same tree and content, whatever order iterdir lists the entries in
C8_Deterministic ==
    (first.done /\ pc = "done") =>
        /\ digest.tree = first.digest.tree
        /\ digest.content = first.digest.content

WalkEnded == walk.pc \in {"done", "failed"}

Count(seq, x) == Cardinality({i \in 1..Len(seq) : seq[i] = x})

RECURSIVE Flatten(_)
Flatten(seqs) == IF seqs = <<>> THEN <<>> ELSE Head(seqs) \o Flatten(Tail(seqs))

\* C9: when fn raises on no regular file, the items walk_parallel yields are,
\* as a multiset, those of fn applied serially to every regular file; fn is
\* applied once to each regular file and never to a directory
C9_ParallelEqualsSerial ==
    (WalkEnded /\ walk.raises \cap _walk_serial = {}) =>
        /\ \A p \in rglob :
              /\ walk.applied[p] = (IF p \in _walk_serial THEN 1 ELSE 0)
              /\ Count(walk.yielded, fn(p)[1]) = (IF p \in _walk_serial THEN 1 ELSE 0)
        /\ Len(walk.yielded) = Cardinality(_walk_serial)

\* C10: when fn raises on one file, the walk still ends normally and the
\* items of every other discovered file are delivered
C10_FailureIsolated ==
    (WalkEnded /\ Cardinality(walk.raises \cap _walk_serial) = 1
               /\ walk.raises \subseteq _walk_serial) =>
        /\ walk.pc = "done"
        /\ \A p \in _walk_serial \ walk.raises : Count(walk.yielded, fn(p)[1]) = 1

PathLess(p, q) == StrLess(relative_to(p), relative_to(q))

\* C11: the items handed on by a parallel walk are in the canonical order of
\* the paths they come from, whatever order the workers completed in
C11_CanonicalOrder ==
    walk.pc = "done" =>
        \A i, j \in 1..Len(walk.yielded) :
            i < j => PathLess(walk.yielded[i], walk.yielded[j])

IsDirNode(ns, p) == ns[p].type = "DIRECTORY"

\* directories before the other entries, each group by name
InRuleOrder(ns, kids) ==
    \A i, j \in 1..Len(kids) :
        i < j =>
            \/ IsDirNode(ns, kids[i]) /\ ~IsDirNode(ns, kids[j])
            \/ /\ IsDirNode(ns, kids[i]) = IsDirNode(ns, kids[j])
               /\ StrLess(Name(kids[i]), Name(kids[j]))

ChildSet(ns, p) == {q \in DOMAIN ns \ {RootPath} : Parent(q) = p}

ChildrenInRuleOrder(ns, p) ==
    LET K == ChildSet(ns, p)
    IN  CHOOSE s \in [1..Cardinality(K) -> K] :
            {s[i] : i \in 1..Cardinality(K)} = K /\ InRuleOrder(ns, s)

RECURSIVE ExpectedNames(_, _)
ExpectedNames(ns, p) ==
    LET kids == ChildrenInRuleOrder(ns, p)
        name == IF p = RootPath THEN RootName ELSE Name(p)
        RECURSIVE Rest(_)
        Rest(i) == IF i > Len(kids) THEN <<>> ELSE ExpectedNames(ns, kids[i]) \o Rest(i + 1)
    IN  IF IsDirNode(ns, p) THEN <<name \o <<"/">> >> \o Rest(1) ELSE <<name>>

TreeNames(tree) == [i \in 1..Len(tree) |-> tree[i].name]

\* C14: after a scan the children of every directory are ordered directories
\* first, then files, each group by name, and the rendered tree lists the
\* entries in exactly that order, directory names suffixed by "/"
C14_ChildrenOrdered ==
    pc = "done" =>
        /\ \A d \in DOMAIN nodes :
              IsDirNode(nodes, d) => InRuleOrder(nodes, nodes[d].children)
        /\ TreeNames(digest.tree) = ExpectedNames(nodes, RootPath)

\* a directory holding two non-directory entries and a subdirectory with a file
C14_Witness ==
    /\ pc = "done"
    /\ TreeNames(digest.tree) =
          <<RootName \o <<"/">>, a \o <<"/">>, b \o <<"/">>, nt, gt, l>>

\* the three situations in which ingest_query is to raise
RootMissing == RootPath \notin DOMAIN fs
RootNeitherFileNorDir == RootPath \in DOMAIN fs /\ fs[RootPath].kind \notin {"file", "dir"}
SchemaViolation == HasGitingest /\ entry.gitingest = "unknown_key"
Fatal == RootMissing \/ RootNeitherFileNorDir \/ SchemaViolation

\* C16: ingest_query raises exactly when the root does not exist, is neither
\* a file nor a directory, or its .gitingest [config] section has an unknown
\* key; in every other situation the call ends with a digest
C16_FatalExactlyThree ==
    /\ pc = "raised" => Fatal
    /\ pc = "done" => ~Fatal /\ digest = format_node(nodes)

\* C17: an entry whose stat() or listing raises OSError is skipped and the
\* scan goes on: it never ends with an error, the entry is not recorded, and
\* every other entry of a completed scan is
C17_IOErrorSkipped ==
    (RootPath \in DOMAIN fs /\ fs[RootPath].kind = "dir" /\ RootPath \notin faults
        /\ entry = EntryPlain) =>
        /\ pc # "raised"
        /\ pc = "done" =>
              \A p \in DOMAIN fs \ {RootPath} :
                  p \in DOMAIN nodes <=>
                      /\ \A d \in (Ancestors(p) \cup {p}) \ {RootPath} : ~Excluded(d)
                      /\ \A q \in faults : q # p /\ ~IsPrefix(q, p)

Occurs(sub, str) == find(str, sub) # 0

Reported(i) == {red.text[i].reports[k] : k \in 1..Len(red.text[i].reports)} \ {<<>>}

\* C15: after redact_secrets no secret value reported for a line occurs in
\* that line of the result, and the mask character stands in the line
C15_SecretsRemoved ==
    red.pc = "done" =>
        \A i \in 1..Len(red.text) :
            \A v \in Reported(i) :
                /\ ~Occurs(v, red.lines[i])
                /\ Occurs(<<MASK>>, red.lines[i])

\* C12: a cache made after set(p, v) and flush() returns v from get(p) while
\* the modification time of p is the one it had at the set
C12_RoundTrip ==
    \A i \in DOMAIN cache :
        (cache[i].got.some /\ cache[i].expect.some
            /\ cache[i].got.path = cache[i].expect.path
            /\ cache[i].got.m = cache[i].expect.m)
        => cache[i].got.value = cache[i].expect.value

C12_Witness ==
    \E i \in DOMAIN cache :
        /\ cache[i].got.some /\ cache[i].expect.some
        /\ cache[i].got.path = cache[i].expect.path
        /\ cache[i].got.m = cache[i].expect.m
        /\ cache[i].got.value = fresh_payload(cache[i].got.path)

\* C18: at every instant the cache file holds one complete document, the one
\* before a flush or the one after it, and no two flushes are under way at once
C18_AtomicFlush ==
    /\ parses(disk.text)
    /\ Cardinality({i \in DOMAIN cache : cache[i].flushing}) <= 1

BrokenStart == ~run.start.exists \/ ~run.start.readable \/ ~parses(run.start.text)

\* C13: a cache made while the cache file is absent, unreadable or not
\* parsable starts empty and raises nothing, and the incremental run goes on
C13_ColdStart ==
    (run.pc # "idle" /\ run.loads > 0 /\ BrokenStart)
    => /\ run.cause # "ChunkCache"
       /\ cache[1].state = "live"
       /\ run.loaded = <<>>

RunEnded == run.pc \in {"done", "raised", "closed"}

\* C19: however an incremental run ends, the cache was loaded once and flushed
\* once after the last result, so the file holds what the run computed
C19_FlushedOnEveryEnd ==
    (run.pc # "idle" /\ run.incremental /\ RunEnded /\ run.cause # "ChunkCache")
    => /\ run.loads = 1
       /\ run.flushes = 1
       /\ parses(disk.text)
       /\ json_loads(disk.text) = cache[1].data

\* C20: in an incremental run a call recomputes iff the cache held no entry
\* under the fingerprint: a hit returns the stored payload as it is, a miss
\* computes the payload, stores it and returns it
C20_ComputeIffMiss ==
    (run.pc # "idle" /\ run.incremental)
    => \A q \in DOMAIN run.trace :
          LET t == run.trace[q]
          IN  /\ t.had => (~t.computed /\ t.returned = t.stored)
              /\ ~t.had => (t.computed /\ t.kept /\ t.returned = fresh_payload(q))

\* C21: the cache answers as a map keyed by normalized path and mtime: a get
\* returns the payload last set for the path at its present mtime, however
\* the path was spelled, and a miss when there is none
C21_KeyedByPathAndMtime == (run.pc = "key" /\ run.got.some) => run.got.value = run.got.expect

\* a line for which scan_line yields one secret, a value found in the line
OneSecret(i) ==
    /\ Len(red.text[i].reports) = 1
    /\ red.text[i].reports[1] # <<>>

\* the line keeps its length, its characters outside the secret are the ones
\* it had, and the mask runs from the secret's first character
MaskedInPlace(line, out, secret_value) ==
    LET idx == find(line, secret_value)
    IN  /\ Len(out) = Len(line)
        /\ \A k \in 1..Len(line) :
              (k < idx \/ k >= idx + Len(secret_value)) => out[k] = line[k]
        /\ \A k \in idx..(idx + mask_len(secret_value) - 1) :
              k < idx + Len(secret_value) => out[k] = MASK

\* C22: a located secret is masked from its first character on and nothing
\* outside its span changes: the line keeps its length and its ending
C22_MaskInPlace ==
    (red.pc = "done" /\ ~prefiltered(red.text))
    => \A i \in 1..Len(red.text) :
          OneSecret(i) =>
              MaskedInPlace(splitlines(red.text)[i], red.lines[i], red.text[i].reports[1])

Returned(w) == red.call[w].pc \in {"done", "raised"}

InBlock(w) == red.call[w].pc \in {"enter", "scan", "exit", "release"}

CallsSafe ==
    red.pc = "threads" =>
        /\ \A w \in Callers :
              /\ red.call[w].pc = "done" => red.call[w].lines = redact_secrets(red.call[w].text)
              /\ InBlock(w) => red.lock = w
              /\ red.call[w].pc \in {"scan", "exit"} => red.settings = "default"
        /\ \A v, w \in Callers : (InBlock(v) /\ InBlock(w)) => v = w
        /\ (\A w \in Callers : ~InBlock(w)) => (red.lock = 0 /\ red.settings = "none")

\* C23: concurrent calls of redact_secrets return what each returns alone, no
\* two of them are inside the locked block at once, the lock and the settings
\* are given back on every exit, and every call returns or raises in the end
C23_ConcurrentCalls ==
    /\ []CallsSafe
    /\ <>(red.pc = "threads" /\ \A w \in Callers : Returned(w))

C23_Witness ==
    /\ red.pc = "threads"
    /\ \A w \in Callers : Returned(w)
    /\ \E v, w \in Callers :
          /\ red.call[v].pc = "raised"
          /\ red.call[w].pc = "done"
          /\ red.call[w].waited
          /\ Occurs(<<MASK>>, red.call[w].lines[1])

TokenLines == {k \in 1..Len(run.summary) : run.summary[k].label = "Estimated tokens"}

UnitFor(n) == IF n < ONE_K THEN "" ELSE IF n < ONE_M THEN "k" ELSE "M"

\* C24: the estimate is shown plain below 1,000, in k from 1,000 up to below
\* 1,000,000 and in M from there on; when encoding fails the summary has no
\* estimate line and is produced all the same
C24_TokenUnits ==
    run.pc = "formatted" =>
        /\ Len(run.summary) >= 1
        /\ run.summary[1].label = "Files analyzed"
        /\ IF run.outcome = "ok"
           THEN /\ Cardinality(TokenLines) = 1
                /\ \A k \in TokenLines : run.summary[k].tokens.unit = UnitFor(run.total_tokens)
           ELSE TokenLines = {}

NoRepeat(seq) == \A i, j \in 1..Len(seq) : seq[i] = seq[j] => i = j

\* the queue holds directories, each once, with their parents, none of them
\* listed yet; a node is one deeper than its parent and no listing is
\* appended twice
QueueSound ==
    /\ NoRepeat([i \in 1..Len(queue) |-> queue[i][1]])
    /\ \A i \in 1..Len(queue) :
          LET p == queue[i][1]
          IN  /\ p \in DOMAIN nodes
              /\ nodes[p].type = "DIRECTORY"
              /\ fs[p].kind = "dir"
              /\ nodes[p].children = <<>>
              /\ (pc = "iter" => p # cur.node)
              /\ queue[i][2] = (IF p = RootPath THEN NoParent ELSE Parent(p))
    /\ \A p \in DOMAIN nodes :
          /\ NoRepeat(nodes[p].children)
          /\ p # RootPath => nodes[p].depth = nodes[Parent(p)].depth + 1

ScanEnded == pc \in {"done", "raised"}

Canonical(p) ==
    realpath(<<"/">>, Tail(IF is_absolute(p) THEN p ELSE Cwd \o p), MaxLinkHops)

Contained(target, base) ==
    LET to   == Canonical(target)
        from == Canonical(base)
    IN  /\ ~to.loop /\ ~from.loop
        /\ Len(from.path) <= Len(to.path)
        /\ SubSeq(to.path, 1, Len(from.path)) = from.path

Verdict(target, base) == IF Contained(target, base) THEN "True" ELSE "False"

\* C26: both predicates answer True exactly when the resolved target is the
\* resolved base or lies beneath it, however the base is spelled, and False
\* for a target outside the base or caught in a cycle of links
C26_SafeIffContained ==
    run.pc = "paths" =>
        /\ run.symlink # "unset" => run.symlink = Verdict(run.target, run.base)
        /\ run.path # "unset" => run.path = Verdict(run.target, run.base)


\* C27: the depth budget is checked before an entry is descended into or
\* recorded: no directory deeper than MAX_DIRECTORY_DEPTH is listed and no
\* node (file, directory or symlink) deeper than it is in the result tree
C27_DepthBudget ==
    Scanning =>
        /\ \A d \in Listed : nodes[d].depth <= limits.MAX_DIRECTORY_DEPTH
        /\ \A p \in DOMAIN nodes : nodes[p].depth <= limits.MAX_DIRECTORY_DEPTH


\* the regular files recorded in the tree
RecordedFiles == {p \in DOMAIN nodes : nodes[p].type = "FILE"}

\* C28: the budgets a scan enforces are the ones its query carries: the
\* regular files recorded stay within query.max_files, their total size
\* within query.max_total_size_bytes, and no directory deeper than
\* query.max_directory_depth is listed
C28_QueryBudgets ==
    Scanning =>
        /\ Cardinality(RecordedFiles) <= query.max_files
        /\ stats.total_size <= query.max_total_size_bytes
        /\ \A d \in Listed : nodes[d].depth <= query.max_directory_depth


\* the summary line of the JSONL output, ingest_query lines 101-105
jsonl_summary == stats.total_files

\* C29: at the end of a scan the statistics agree with the tree: total_files
\* is the root's file_count and the number of leaves recorded, total_size is
\* the sum of the sizes of the recorded files, and the JSONL summary and the
\* text summary report the same number of files
C29_StatsAgreeWithTree ==
    (pc = "done" /\ nodes[RootPath].type = "DIRECTORY") =>
        /\ stats.total_files = nodes[RootPath].file_count
        /\ stats.total_files = Cardinality(Leaves(nodes, RootPath))
        /\ stats.total_size = SumSize(nodes, Leaves(nodes, RootPath))
        /\ jsonl_summary = digest.summary


\* the files a set of entries names
Canon(S) == {fs[p].ino : p \in S}

\* C30: each file contributes at most once to the totals: of the entries
\* that name the same file (a file and a symlink to it, two hard links) one
\* is recorded in the tree, and total_files, the root's file_count and
\* total_size count every file named by a recorded entry once
C30_CountedOnce ==
    pc = "done" =>
        LET leaves == Leaves(nodes, RootPath)
        IN  /\ \A p \in leaves : \A q \in leaves : fs[p].ino = fs[q].ino => p = q
            /\ stats.total_files <= Cardinality(Canon(leaves))
            /\ nodes[RootPath].file_count <= Cardinality(Canon(leaves))
            /\ stats.total_size <= SumFileSize(Canon(leaves))

====
